---- MODULE Spec2Model ----
(***************************************************************************)
(* Erie Hall court gap finder: the gap sweep of calendar_parser.find_gaps, *)
(* the merge / window / dedup steps of main.main, the report built by      *)
(* main.save_results_json, the time texts of parse_time / format_hour and  *)
(* the iCal path of ical_parser.fetch_ical_data.                           *)
(*                                                                         *)
(* Representation.                                                         *)
(*  - An hour value (a Python float such as 9.5) is held as the integer    *)
(*    number of minutes since midnight (570).  The times of the sweep, the *)
(*    pages and the feed are on a quarter hour, where hour + minute / 60   *)
(*    is exact in binary floating point, so <, >=, - and int() agree with  *)
(*    the integers; format_hour carries the truncation of int() on the     *)
(*    other minutes (TruncatedMinutes).                                    *)
(*  - A time text ("9:30AM", "9AM") is the record of what the regular      *)
(*    expressions of parse_time read in it: [form, h, m, p].               *)
(*  - A date text is a string; parse_date is the table of its value on the *)
(*    date texts of the model, a date being its ordinal day of 2026.       *)
(*  - A dict is a function; the model's date texts parse to distinct       *)
(*    dates, so no sort of dict keys depends on insertion order.           *)
(***************************************************************************)
EXTENDS Integers, Sequences, FiniteSets, TLC

VARIABLES
    \* ---- find_gaps, one day's bucket (specification SpecGaps)
    events,             \* events_by_day[date_str]: <<[start, end]>> in arrival order
    day_gaps,           \* the day's gap list
    current_time,       \* the sweep cursor after the sweep
    dropped,            \* history: the candidate gaps the sweep did not keep
    gphase,             \* "collect" | "swept"
    \* ---- main() (specification Spec)
    pc,                 \* "loop" | "scrape2" | "merge" | "saved" | "raised"
    court_idx,          \* number of courts of COURTS already processed
    budget,             \* grid items the calendar site may still show
    today,
    gaps_week1, badminton_week1, gaps_week2, badminton_week2,
    merged_gaps, filtered_gaps, merged_badminton, filtered_badminton,
    court_badminton,    \* history: what this court's dedup loop appended
    all_gaps, all_badminton,
    output,             \* output["courts"] as written to gaps.json
    raised_at,          \* 0, or the position in all_gaps of the court at whose
                        \* entry save_results_json raised
    \* ---- filter_for_week and the badminton window (specification SpecWindow)
    w_data, w_list, w_start, w_days, w_filtered, w_filtered_list, wphase,
    \* ---- format_hour then parse_time (specification SpecTime)
    t_module,           \* "calendar_parser" | "ical_parser"
    t_hour,             \* the hour value, in minutes
    t_text,             \* format_hour(t_hour)
    t_back,             \* parse_time(t_text)
    tphase,             \* "input" | "formatted" | "parsed"
    \* ---- find_gaps on one page (specification SpecPage)
    page_items,         \* the grid items of the page, in document order
    page_gaps,          \* the dict find_gaps returns
    pphase,             \* "collect" | "found"
    \* ---- fetch_ical_data (specification SpecIcal)
    feed,               \* c.events of the parsed calendar
    i_gaps,             \* the gaps dict it returns
    i_badminton,        \* the badminton_events list it returns
    iphase              \* "collect" | "fetched"

gapVars == <<events, day_gaps, current_time, dropped, gphase>>
mainVars == <<pc, court_idx, budget, today, gaps_week1, badminton_week1,
              gaps_week2, badminton_week2, merged_gaps, filtered_gaps,
              merged_badminton, filtered_badminton, court_badminton,
              all_gaps, all_badminton, output, raised_at>>
winVars == <<w_data, w_list, w_start, w_days, w_filtered, w_filtered_list, wphase>>
timeVars == <<t_module, t_hour, t_text, t_back, tphase>>
pageVars == <<page_items, page_gaps, pphase>>
icalVars == <<feed, i_gaps, i_badminton, iphase>>
vars == <<gapVars, mainVars, winVars, timeVars, pageVars, icalVars>>

----------------------------------------------------------------------------
(* Bounds *)

\* events in one day's bucket
MaxEvents == 2
\* grid items the calendar site shows over all the pages of one run
MaxItems == 3
\* classified events in the list handed to the window filter
MaxListed == 1
\* events in the iCal feed of one court
MaxFeed == 3

----------------------------------------------------------------------------
(* Values *)

\* Python's None, where a float or a date is expected
None == -1

\* config.OPEN_HOUR / config.CLOSE_HOUR, in minutes (6 and 23 o'clock)
OPEN_HOUR == 6 * 60
CLOSE_HOUR == 23 * 60
\* "if duration >= 1": one hour, in minutes
MIN_GAP == 60

\* config.OPERATING_HOURS: weekday (Monday = 0) -> (open, close), in minutes
OPERATING_HOURS ==
    [wd \in 0..6 |->
       IF wd \in 0..3 THEN [open |-> 6 * 60, close |-> 23 * 60]
       ELSE IF wd = 4 THEN [open |-> 6 * 60, close |-> 22 * 60]
       ELSE IF wd = 5 THEN [open |-> 10 * 60, close |-> 22 * 60]
       ELSE [open |-> 12 * 60, close |-> 23 * 60]]

\* date.weekday() of the ordinal day of 2026 (1 January 2026 is a Thursday)
weekday(date) == (date + 2) % 7

EmptyDict == [x \in {} |-> <<>>]

Range(s) == {s[i] : i \in 1..Len(s)}

RECURSIVE SumSeq(_)
SumSeq(s) == IF s = <<>> THEN 0 ELSE Head(s) + SumSeq(Tail(s))

----------------------------------------------------------------------------
(* Time and date texts *)

Colon(h, m, p) == [form |-> "h:mm", h |-> h, m |-> m, p |-> p]
Bare(h, p) == [form |-> "h", h |-> h, m |-> 0, p |-> p]
\* a text the scraper's pattern \d+:?\d*[AP]M accepts and parse_time does not
NoMinutes(h, p) == [form |-> "h:", h |-> h, m |-> 0, p |-> p]

Hour24(h, p) ==
    IF p = "PM" /\ h # 12 THEN h + 12
    ELSE IF p = "AM" /\ h = 12 THEN 0
    ELSE h

parse_time(t) ==
    IF t.form = "h:mm" THEN Hour24(t.h, t.p) * 60 + t.m
    ELSE IF t.form = "h" THEN Hour24(t.h, t.p) * 60
    ELSE None

\* The hour values h + m / 60.0 (as minutes since midnight) for which the
\* double (hour - h) * 60 falls just below m, so that int() yields m - 1.
\* Tabulated from IEEE-754 double arithmetic over the 1440 minutes of a day;
\* no quarter hour is among them.
TruncatedMinutes ==
    {
      61, 64, 65, 68, 69, 72, 76, 77, 80, 84, 87, 91,
      92, 99, 100, 107, 114, 115, 121, 122, 123, 128, 129, 130,
      131, 136, 137, 138, 139, 144, 145, 151, 152, 153, 154, 159,
      160, 167, 168, 169, 174, 175, 181, 182, 183, 188, 189, 190,
      191, 196, 197, 198, 199, 204, 205, 211, 212, 213, 214, 219,
      220, 227, 228, 229, 234, 235, 241, 242, 243, 244, 245, 246,
      247, 256, 257, 258, 259, 260, 261, 262, 271, 272, 273, 274,
      275, 276, 278, 287, 288, 289, 290, 291, 293, 301, 302, 303,
      304, 305, 306, 307, 316, 317, 318, 319, 320, 321, 322, 331,
      332, 333, 334, 335, 336, 338, 347, 348, 349, 350, 351, 353,
      361, 362, 363, 364, 365, 366, 367, 376, 377, 378, 379, 380,
      381, 382, 391, 392, 393, 394, 395, 396, 398, 407, 408, 409,
      410, 411, 413, 421, 422, 423, 424, 425, 426, 427, 436, 437,
      438, 439, 440, 441, 442, 451, 452, 453, 454, 455, 456, 458,
      467, 468, 469, 470, 471, 473, 482, 484, 486, 488, 490, 492,
      494, 497, 499, 501, 503, 505, 507, 509, 512, 514, 516, 518,
      520, 522, 524, 527, 529, 531, 533, 535, 537, 539, 542, 544,
      546, 548, 550, 552, 554, 557, 559, 561, 563, 565, 567, 569,
      572, 574, 576, 578, 580, 582, 584, 587, 589, 591, 593, 595,
      597, 599, 602, 604, 606, 608, 610, 612, 614, 617, 619, 621,
      623, 625, 627, 629, 632, 634, 636, 638, 640, 642, 644, 647,
      649, 651, 653, 655, 657, 659, 662, 664, 666, 668, 670, 672,
      674, 677, 679, 681, 683, 685, 687, 689, 692, 694, 696, 698,
      700, 702, 704, 707, 709, 711, 713, 715, 717, 719, 722, 724,
      726, 728, 730, 732, 734, 737, 739, 741, 743, 745, 747, 749,
      752, 754, 756, 758, 760, 762, 764, 767, 769, 771, 773, 775,
      777, 779, 782, 784, 786, 788, 790, 792, 794, 797, 799, 801,
      803, 805, 807, 809, 812, 814, 816, 818, 820, 822, 824, 827,
      829, 831, 833, 835, 837, 839, 842, 844, 846, 848, 850, 852,
      854, 857, 859, 861, 863, 865, 867, 869, 872, 874, 876, 878,
      880, 882, 884, 887, 889, 891, 893, 895, 897, 899, 902, 904,
      906, 908, 910, 912, 914, 917, 919, 921, 923, 925, 927, 929,
      932, 934, 936, 938, 940, 942, 944, 947, 949, 951, 953, 955,
      957, 959, 961, 964, 965, 968, 969, 972, 973, 976, 979, 980,
      983, 984, 987, 988, 991, 994, 995, 998, 999, 1002, 1003, 1006,
      1009, 1010, 1013, 1014, 1017, 1018, 1021, 1024, 1025, 1028, 1029, 1032,
      1033, 1036, 1039, 1040, 1043, 1044, 1047, 1048, 1051, 1054, 1055, 1058,
      1059, 1062, 1063, 1066, 1069, 1070, 1073, 1074, 1077, 1078, 1081, 1084,
      1085, 1088, 1089, 1092, 1093, 1096, 1099, 1100, 1103, 1104, 1107, 1108,
      1111, 1114, 1115, 1118, 1119, 1122, 1123, 1126, 1129, 1130, 1133, 1134,
      1137, 1138, 1141, 1144, 1145, 1148, 1149, 1152, 1153, 1156, 1159, 1160,
      1163, 1164, 1167, 1168, 1171, 1174, 1175, 1178, 1179, 1182, 1183, 1186,
      1189, 1190, 1193, 1194, 1197, 1198, 1201, 1204, 1205, 1208, 1209, 1212,
      1213, 1216, 1219, 1220, 1223, 1224, 1227, 1228, 1231, 1234, 1235, 1238,
      1239, 1242, 1243, 1246, 1249, 1250, 1253, 1254, 1257, 1258, 1261, 1264,
      1265, 1268, 1269, 1272, 1273, 1276, 1279, 1280, 1283, 1284, 1287, 1288,
      1291, 1294, 1295, 1298, 1299, 1302, 1303, 1306, 1309, 1310, 1313, 1314,
      1317, 1318, 1321, 1324, 1325, 1328, 1329, 1332, 1333, 1336, 1339, 1340,
      1343, 1344, 1347, 1348, 1351, 1354, 1355, 1358, 1359, 1362, 1363, 1366,
      1369, 1370, 1373, 1374, 1377, 1378, 1381, 1384, 1385, 1388, 1389, 1392,
      1393, 1396, 1399, 1400, 1403, 1404, 1407, 1408, 1411, 1414, 1415, 1418,
      1419, 1422, 1423, 1426, 1429, 1430, 1433, 1434, 1437, 1438 }

\* int((hour - h) * 60)
FloatMinute(hour) ==
    IF hour \in TruncatedMinutes THEN (hour % 60) - 1 ELSE hour % 60

\* h = int(hour), m = int((hour - h) * 60)
format_hour(hour) ==
    LET h == hour \div 60
        m == FloatMinute(hour)
        period == IF h < 12 THEN "AM" ELSE "PM"
        h12 == IF h > 12 THEN h - 12 ELSE IF h = 0 THEN 12 ELSE h
    IN  IF m > 0 THEN Colon(h12, m, period) ELSE Bare(h12, period)

\* ical_parser.format_hour: f"{h:02d}:{m:02d}", a 24-hour text without AM/PM
Clock24(h, m) == [form |-> "HH:MM", h |-> h, m |-> m, p |-> ""]

ical_format_hour(hour) == Clock24(hour \div 60, FloatMinute(hour))

\* ical_parser.parse_time: the same patterns as calendar_parser.parse_time
ical_parse_time(t) ==
    IF t.form = "h:mm" THEN Hour24(t.h, t.p) * 60 + t.m
    ELSE IF t.form = "h" THEN Hour24(t.h, t.p) * 60
    ELSE None

\* round(duration, 1): tenths of an hour, ties to the even tenth
round1(duration) ==
    LET q == (duration * 10) \div 60
        r == (duration * 10) % 60
    IN  IF r > 30 \/ (r = 30 /\ q % 2 = 1) THEN q + 1 ELSE q

\* the date texts of the model, with the date each parses to under
\* "%a %b %d %Y" (None: strptime raises ValueError) and its "%a, %d-%b" form
DateTable ==
    { [text |-> "Fri Jan 30 2026", date |-> 30, short |-> "Fri, 30-Jan", lex |-> 3],
      [text |-> "Sat Jan 31 2026", date |-> 31, short |-> "Sat, 31-Jan", lex |-> 5],
      [text |-> "Tue Feb 03 2026", date |-> 34, short |-> "Tue, 03-Feb", lex |-> 6],
      [text |-> "Fri Feb 06 2026", date |-> 37, short |-> "Fri, 06-Feb", lex |-> 2],
      [text |-> "Sat Feb 07 2026", date |-> 38, short |-> "Sat, 07-Feb", lex |-> 4],
      [text |-> "Foo Bar 1 2",     date |-> None, short |-> "Foo Bar 1 2", lex |-> 1] }

DateStrs == {r.text : r \in DateTable}
DateRow(date_str) == CHOOSE r \in DateTable : r.text = date_str

parse_date(date_str) == DateRow(date_str).date

\* d_obj.strftime("%a, %d-%b") if d_obj else date_str
formatted_date(date_str) == DateRow(date_str).short

\* position of the text in the lexical (string) order of the date texts
LexRank(date_str) == DateRow(date_str).lex

----------------------------------------------------------------------------
(* Sorting: list.sort / sorted are stable *)

\* insert x after the elements whose start is not greater (stability)
RECURSIVE InsertByStart(_, _)
InsertByStart(x, s) ==
    IF s = <<>> THEN <<x>>
    ELSE IF x.start < Head(s).start THEN <<x>> \o s
    ELSE <<Head(s)>> \o InsertByStart(x, Tail(s))

\* list.sort(key=lambda x: x['start'])
RECURSIVE SortByStart(_)
SortByStart(s) ==
    IF s = <<>> THEN <<>>
    ELSE InsertByStart(s[Len(s)], SortByStart(SubSeq(s, 1, Len(s) - 1)))

----------------------------------------------------------------------------
(* calendar_parser.find_gaps *)

\* a gap dict: {'start', 'end', 'duration'}
Gap(s, e) == [start |-> s, end |-> e, duration |-> e - s]

\* "if duration >= 1"
KeepGap(duration) == duration >= MIN_GAP

\* mutant: the cursor is set to the end of every event
AdvanceAlways(cur, event) == event.end

\* "if event['end'] > current_time: current_time = event['end']"
Advance(cur, event) == IF event.end > cur THEN event.end ELSE cur

\* the loop body, for one event
SweepStep(acc, event) ==
    LET cand == event.start > acc.current_time
        duration == event.start - acc.current_time
        g == Gap(acc.current_time, event.start)
    IN  [day_gaps |-> IF cand /\ KeepGap(duration)
                      THEN Append(acc.day_gaps, g) ELSE acc.day_gaps,
         dropped |-> IF cand /\ ~KeepGap(duration)
                     THEN Append(acc.dropped, g) ELSE acc.dropped,
         current_time |-> Advance(acc.current_time, event)]

RECURSIVE SweepLoop(_, _)
SweepLoop(acc, evs) ==
    IF evs = <<>> THEN acc
    ELSE SweepLoop(SweepStep(acc, Head(evs)), Tail(evs))

\* mutant: the gap at the end of the day is forgotten
TrailingGapForgotten(acc) == acc

\* "Gap at end of day"
TrailingGap(acc) ==
    LET cand == acc.current_time < CLOSE_HOUR
        duration == CLOSE_HOUR - acc.current_time
        g == Gap(acc.current_time, CLOSE_HOUR)
    IN  [day_gaps |-> IF cand /\ KeepGap(duration)
                      THEN Append(acc.day_gaps, g) ELSE acc.day_gaps,
         dropped |-> IF cand /\ ~KeepGap(duration)
                     THEN Append(acc.dropped, g) ELSE acc.dropped,
         current_time |-> acc.current_time]

\* one day of the "Calculate gaps" loop: events sorted by start, then swept
SweepDay(evs) ==
    TrailingGap(SweepLoop([day_gaps |-> <<>>, dropped |-> <<>>,
                           current_time |-> OPEN_HOUR],
                          SortByStart(evs)))


\* an aria-label the pattern "(\w+ \w+ \d+ \d+) from (..) until (..)" matches:
\* the event name, the date text and the two time texts
Item(name, date_str, start, end) ==
    [name |-> name, date_str |-> date_str, start |-> start, end |-> end]

\* mutant: one item that does not parse empties the batch
AllOrNothing(items) ==
    IF \A i \in 1..Len(items) :
         parse_time(items[i].start) # None /\ parse_time(items[i].end) # None
    THEN items ELSE <<>>

\* the items whose two times parse_time reads ("is not None")
Parsable(items) ==
    LET Ok(it) == parse_time(it.start) # None /\ parse_time(it.end) # None
    IN  SelectSeq(items, Ok)

\* events_by_day: per date text, the {'start', 'end'} of its items, in page order
events_by_day(items) ==
    LET ok == Parsable(items)
    IN  [d \in {ok[i].date_str : i \in 1..Len(ok)} |->
           LET OnDay(it) == it.date_str = d
               its == SelectSeq(ok, OnDay)
           IN  [i \in 1..Len(its) |->
                  [start |-> parse_time(its[i].start), end |-> parse_time(its[i].end)]]]

\* gaps[date_str] = day_gaps, for every date with an event (an empty list included)
find_gaps(items) ==
    LET by_day == events_by_day(items)
    IN  [d \in DOMAIN by_day |-> SweepDay(by_day[d]).day_gaps]

----------------------------------------------------------------------------
(* calendar_parser.find_badminton_events *)

\* 'badminton' in aria_label.lower(), on the event names of the model
IsBadminton(name) == name \in {"Badminton Club", "BADMINTON Open Play"}

BadmintonEvent(it) ==
    [name |-> it.name, date_str |-> it.date_str, date |-> parse_date(it.date_str),
     start |-> it.start, end |-> it.end,
     start_hour |-> parse_time(it.start), end_hour |-> parse_time(it.end)]

find_badminton_events(items) ==
    LET Is(it) == IsBadminton(it.name)
        its == SelectSeq(items, Is)
    IN  [i \in 1..Len(its) |-> BadmintonEvent(its[i])]

\* one scrape pass over a page: (gaps, badminton)
scrape_calendar_data(items) ==
    [gaps |-> find_gaps(items), badminton |-> find_badminton_events(items)]

----------------------------------------------------------------------------
(* main.filter_for_week and the steps of main.main *)

\* timedelta(days=days-1) added to the start date
WindowEnd(start, days) == start + (days - 1)

\* mutant: the last day of the window is left out
InWindowExclusive(d, start, end) == d # None /\ start <= d /\ d < end

\* "d and target_start_date <= d <= target_end_date"
InWindow(d, start, end) == d # None /\ start <= d /\ d <= end

filter_for_week(data_dict, target_start_date, days) ==
    LET target_end_date == WindowEnd(target_start_date, days)
        keep == {k \in DOMAIN data_dict :
                    InWindow(parse_date(k), target_start_date, target_end_date)}
    IN  [k \in keep |-> data_dict[k]]

\* mutant: the earlier pass wins on a date of both passes
MergeGapsFirstWins(g1, g2) ==
    [k \in DOMAIN g1 \cup DOMAIN g2 |-> IF k \in DOMAIN g1 THEN g1[k] ELSE g2[k]]

\* {**gaps_week1, **gaps_week2}
MergeGaps(g1, g2) ==
    [k \in DOMAIN g1 \cup DOMAIN g2 |-> IF k \in DOMAIN g2 THEN g2[k] ELSE g1[k]]

\* [e for e in merged_badminton if e['date'] and today <= e['date'] <= end_date]
FilterBadminton(merged, start, end_date) ==
    LET Keep(e) == InWindow(e.date, start, end_date)
    IN  SelectSeq(merged, Keep)

\* key = (e['name'], e['date_str'], e['start'])
DedupKey(e) == <<e.name, e.date_str, e.start>>

\* e['court'] = court_name
WithCourt(e, court_name) ==
    [name |-> e.name, date_str |-> e.date_str, date |-> e.date,
     start |-> e.start, end |-> e.end,
     start_hour |-> e.start_hour, end_hour |-> e.end_hour, court |-> court_name]

\* mutant: the last event of a key is kept, not the first
LastSeen(filtered, i) ==
    \A j \in (i + 1)..Len(filtered) : DedupKey(filtered[j]) # DedupKey(filtered[i])

\* mutant: no dedup, every event is appended
AlwaysNew(filtered, i) == TRUE

\* "if key not in seen": whether the dedup loop appends the i-th event
FirstSeen(filtered, i) ==
    \A j \in 1..(i - 1) : DedupKey(filtered[j]) # DedupKey(filtered[i])

\* the dedup loop: what it appends to all_badminton for this court
RECURSIVE DedupFrom(_, _, _)
DedupFrom(filtered, i, court_name) ==
    IF i > Len(filtered) THEN <<>>
    ELSE (IF FirstSeen(filtered, i)
          THEN <<WithCourt(filtered[i], court_name)>> ELSE <<>>)
         \o DedupFrom(filtered, i + 1, court_name)

Dedup(filtered, court_name) == DedupFrom(filtered, 1, court_name)

----------------------------------------------------------------------------
(* main.save_results_json *)

\* date.min, below every date
DATE_MIN == 0

\* mutant: the keys are sorted as strings
date_key_lexical(d_str) == LexRank(d_str)

\* parse_date(d_str) or date.min
date_key(d_str) == IF parse_date(d_str) = None THEN DATE_MIN ELSE parse_date(d_str)

\* sorted(gaps.keys(), key=date_key); keys of equal date_key, which sorted()
\* leaves in dict order, do not occur among the date texts of the model
RECURSIVE SortedDates(_)
SortedDates(keys) ==
    IF keys = {} THEN <<>>
    ELSE LET first == CHOOSE k \in keys : \A o \in keys : date_key(k) <= date_key(o)
         IN  <<first>> \o SortedDates(keys \ {first})

\* truth of a Python value in "court and d_str and s and e": None and 0.0 are false
Truthy(x) == x # None /\ x # 0

\* the slot appended for a badminton event
BadmintonSlot(s, e) ==
    [start |-> s, end |-> e, duration |-> e - s, note |-> "Badminton Club"]

\* whether step 1 injects the event
Injected(event) ==
    Truthy(parse_time(event.start)) /\ Truthy(parse_time(event.end))

\* step 1, one event: append its slot to all_gaps[court][d_str], creating both
InjectEvent(gaps, event) ==
    LET court == event.court
        d_str == event.date_str
        s == parse_time(event.start)
        e == parse_time(event.end)
        of_court == IF court \in DOMAIN gaps THEN gaps[court] ELSE EmptyDict
        of_day == IF d_str \in DOMAIN of_court THEN of_court[d_str] ELSE <<>>
        new_day == Append(of_day, BadmintonSlot(s, e))
        new_court == [k \in DOMAIN of_court \cup {d_str} |->
                        IF k = d_str THEN new_day ELSE of_court[k]]
    IN  IF Injected(event)
        THEN [c \in DOMAIN gaps \cup {court} |->
                IF c = court THEN new_court ELSE gaps[c]]
        ELSE gaps

RECURSIVE InjectAll(_, _)
InjectAll(gaps, badminton) ==
    IF badminton = <<>> THEN gaps
    ELSE InjectAll(InjectEvent(gaps, Head(badminton)), Tail(badminton))

\* item.get('note', "Open")
NoteOf(item) == IF "note" \in DOMAIN item THEN item.note ELSE "Open"

\* one entry of slots_list
Slot(item) ==
    [start |-> format_hour(item.start), end |-> format_hour(item.end),
     duration_hours |-> round1(item.duration), note |-> NoteOf(item)]

\* day_items.sort(key=lambda x: x['start']), in place
SortDay(day_items) == SortByStart(day_items)

\* step 2, one court: court_data
CourtData(gaps) ==
    LET sorted_dates == SortedDates(DOMAIN gaps)
    IN  [i \in 1..Len(sorted_dates) |->
           LET day_items == SortDay(gaps[sorted_dates[i]])
           IN  [date |-> formatted_date(sorted_dates[i]),
                slots |-> [j \in 1..Len(day_items) |-> Slot(day_items[j])]]]

\* the whole function: all_gaps as it leaves it, and output["courts"]
save_results_json(gaps, badminton) ==
    LET injected == InjectAll(gaps, badminton)
    IN  [all_gaps |-> [c \in DOMAIN injected |->
                         [d \in DOMAIN injected[c] |-> SortDay(injected[c][d])]],
         courts |-> [c \in DOMAIN injected |-> CourtData(injected[c])]]

----------------------------------------------------------------------------
(* ical_parser.fetch_ical_data *)

\* an event of the feed: its name, and begin / end as (date, minute of the day)
\* in Eastern time
FeedEvent(name, bdate, bminute, edate, eminute) ==
    [name |-> name,
     begin |-> [date |-> bdate, minute |-> bminute],
     end |-> [date |-> edate, minute |-> eminute]]

\* start_dt.strftime('%a %b %d %Y'), on the dates of the model
strftime_date(date) == (CHOOSE r \in DateTable : r.date = date).text

\* dt.strftime('%I:%M%p').lstrip('0')
strftime_time(minute) ==
    LET h == minute \div 60
        h12 == IF h > 12 THEN h - 12 ELSE IF h = 0 THEN 12 ELSE h
    IN  Colon(h12, minute % 60, IF h < 12 THEN "AM" ELSE "PM")

\* the events the loop keeps: "if start_dt.date() < today: continue"
NotPast(cal_events, now_date) ==
    LET Keep(e) == e.begin.date >= now_date IN SelectSeq(cal_events, Keep)

\* events_by_day: the bucket of the start date takes the hour of the day of
\* begin and the hour of the day of end, whatever the date of end
ical_events_by_day(cal_events, now_date) ==
    LET kept == NotPast(cal_events, now_date)
    IN  [d \in {strftime_date(kept[i].begin.date) : i \in 1..Len(kept)} |->
           LET OnDay(e) == strftime_date(e.begin.date) = d
               its == SelectSeq(kept, OnDay)
           IN  [i \in 1..Len(its) |->
                  [start |-> its[i].begin.minute, end |-> its[i].end.minute]]]

ical_badminton_event(e) ==
    [name |-> e.name, date_str |-> strftime_date(e.begin.date),
     date |-> e.begin.date,
     start |-> strftime_time(e.begin.minute), end |-> strftime_time(e.end.minute)]

\* the whole function on a feed that was fetched: (gaps, badminton_events);
\* "if day_gaps: gaps[date_str] = day_gaps" keeps no empty list
fetch_ical_data(cal_events, now_date) ==
    LET by_day == ical_events_by_day(cal_events, now_date)
        swept == [d \in DOMAIN by_day |-> SweepDay(by_day[d]).day_gaps]
        kept == NotPast(cal_events, now_date)
        Is(e) == IsBadminton(e.name)
        its == SelectSeq(kept, Is)
    IN  [gaps |-> [d \in {x \in DOMAIN swept : swept[x] # <<>>} |-> swept[d]],
         badminton_events |-> [i \in 1..Len(its) |-> ical_badminton_event(its[i])]]

----------------------------------------------------------------------------
(* Inputs *)

\* the time texts a grid item of the gap sweep may carry: before opening, at
\* opening, half an hour in, mid-morning, half an hour before closing, at
\* closing, and twice after closing
GapTimes ==
    { Bare(5, "AM"), Bare(6, "AM"), Colon(6, 30, "AM"), Bare(10, "AM"),
      Colon(10, 30, "PM"), Bare(11, "PM"), Colon(11, 30, "PM"),
      Colon(11, 45, "PM") }

\* config.COURTS, in dict order
COURTS == <<"Court 1", "Court 2", "Court 3">>

\* the grid items the calendar pages of a run may show
PageItems ==
    { Item("Badminton Club", "Sat Jan 31 2026", Colon(9, 0, "AM"), Colon(10, 0, "AM")),
      Item("Badminton Club", "Sat Jan 31 2026", Colon(9, 0, "AM"), Colon(11, 0, "AM")),
      Item("Volleyball", "Sat Jan 31 2026", Colon(2, 0, "PM"), Colon(3, 0, "PM")),
      Item("Badminton Club", "Fri Feb 06 2026", Colon(12, 0, "AM"), Colon(6, 0, "AM")),
      Item("Badminton Club", "Sat Feb 07 2026", Colon(9, 0, "AM"), Colon(10, 0, "AM")) }

\* the pages of at most n items
Pages(n) == UNION {[1..k -> PageItems] : k \in 0..n}

\* datetime.now().date() of the run: Sat Jan 31 2026
Today == 31

GapsIdle ==
    /\ events = <<>> /\ day_gaps = <<>> /\ current_time = OPEN_HOUR
    /\ dropped = <<>> /\ gphase = "idle"

MainIdle ==
    /\ pc = "idle" /\ court_idx = 0 /\ budget = 0 /\ today = Today
    /\ gaps_week1 = EmptyDict /\ badminton_week1 = <<>>
    /\ gaps_week2 = EmptyDict /\ badminton_week2 = <<>>
    /\ merged_gaps = EmptyDict /\ filtered_gaps = EmptyDict
    /\ merged_badminton = <<>> /\ filtered_badminton = <<>>
    /\ court_badminton = <<>>
    /\ all_gaps = EmptyDict /\ all_badminton = <<>> /\ output = EmptyDict
    /\ raised_at = 0

WinIdle ==
    /\ w_data = EmptyDict /\ w_list = <<>> /\ w_start = Today /\ w_days = 7
    /\ w_filtered = EmptyDict /\ w_filtered_list = <<>> /\ wphase = "idle"

TimeIdle ==
    /\ t_module = "calendar_parser" /\ t_hour = 0 /\ t_text = Bare(12, "AM")
    /\ t_back = 0 /\ tphase = "idle"

PageIdle == page_items = <<>> /\ page_gaps = EmptyDict /\ pphase = "idle"

IcalIdle ==
    /\ feed = <<>> /\ i_gaps = EmptyDict /\ i_badminton = <<>> /\ iphase = "idle"

----------------------------------------------------------------------------
(* SpecGaps: find_gaps on the bucket of one date *)

InitGaps ==
    /\ events = <<>> /\ day_gaps = <<>> /\ current_time = OPEN_HOUR
    /\ dropped = <<>> /\ gphase = "collect"
    /\ MainIdle /\ WinIdle /\ TimeIdle /\ PageIdle /\ IcalIdle

\* one grid item of the date: its times are parsed and, if both parse, the
\* event joins the bucket
AddEvent(start_text, end_text) ==
    /\ gphase = "collect"
    /\ Len(events) < MaxEvents
    /\ LET start_hour == parse_time(start_text)
           end_hour == parse_time(end_text)
       IN  events' = IF start_hour # None /\ end_hour # None
                     THEN Append(events, [start |-> start_hour, end |-> end_hour])
                     ELSE events
    /\ UNCHANGED <<day_gaps, current_time, dropped, gphase>>
    /\ UNCHANGED <<mainVars, winVars, timeVars, pageVars, icalVars>>

\* the "Calculate gaps" loop body for the date
Sweep ==
    /\ gphase = "collect"
    /\ LET r == SweepDay(events)
       IN  /\ events' = SortByStart(events)
           /\ day_gaps' = r.day_gaps
           /\ current_time' = r.current_time
           /\ dropped' = r.dropped
    /\ gphase' = "swept"
    /\ UNCHANGED <<mainVars, winVars, timeVars, pageVars, icalVars>>

NextGaps ==
    \/ \E st \in GapTimes, en \in GapTimes : AddEvent(st, en)
    \/ Sweep

SpecGaps == InitGaps /\ [][NextGaps]_vars

----------------------------------------------------------------------------
(* Spec: main() *)

Init ==
    /\ pc = "loop" /\ court_idx = 0 /\ budget = MaxItems /\ today = Today
    /\ gaps_week1 = EmptyDict /\ badminton_week1 = <<>>
    /\ gaps_week2 = EmptyDict /\ badminton_week2 = <<>>
    /\ merged_gaps = EmptyDict /\ filtered_gaps = EmptyDict
    /\ merged_badminton = <<>> /\ filtered_badminton = <<>>
    /\ court_badminton = <<>>
    /\ all_gaps = EmptyDict /\ all_badminton = <<>> /\ output = EmptyDict
    /\ raised_at = 0
    /\ GapsIdle /\ WinIdle /\ TimeIdle /\ PageIdle /\ IcalIdle

\* "not gaps_week1 and not badminton_week1"
EmptyScrape(r) == DOMAIN r.gaps = {} /\ r.badminton = <<>>

\* the next court's page is loaded and scraped, once more if nothing was found
ScrapeWeek1 ==
    /\ pc = "loop"
    /\ court_idx < Len(COURTS)
    /\ \E page \in Pages(budget) :
         LET r == scrape_calendar_data(page)
             left == budget - Len(page)
         IN  IF EmptyScrape(r)
             THEN \E again \in Pages(left) :
                    /\ gaps_week1' = scrape_calendar_data(again).gaps
                    /\ badminton_week1' = scrape_calendar_data(again).badminton
                    /\ budget' = left - Len(again)
             ELSE /\ gaps_week1' = r.gaps
                  /\ badminton_week1' = r.badminton
                  /\ budget' = left
    /\ pc' = "scrape2"
    /\ UNCHANGED <<court_idx, today, gaps_week2, badminton_week2, merged_gaps,
                   filtered_gaps, merged_badminton, filtered_badminton,
                   court_badminton, all_gaps, all_badminton, output, raised_at>>
    /\ UNCHANGED <<gapVars, winVars, timeVars, pageVars, icalVars>>

\* click_next_week, and the scrape of the next week if it succeeded
ScrapeWeek2 ==
    /\ pc = "scrape2"
    /\ \E week2_success \in BOOLEAN :
         IF week2_success
         THEN \E page \in Pages(budget) :
                /\ gaps_week2' = scrape_calendar_data(page).gaps
                /\ badminton_week2' = scrape_calendar_data(page).badminton
                /\ budget' = budget - Len(page)
         ELSE /\ gaps_week2' = EmptyDict
              /\ badminton_week2' = <<>>
              /\ budget' = budget
    /\ pc' = "merge"
    /\ UNCHANGED <<court_idx, today, gaps_week1, badminton_week1, merged_gaps,
                   filtered_gaps, merged_badminton, filtered_badminton,
                   court_badminton, all_gaps, all_badminton, output, raised_at>>
    /\ UNCHANGED <<gapVars, winVars, timeVars, pageVars, icalVars>>

\* steps 3 and 4 of the loop body: merge, window, dedup.  The dedup loop sets
\* e['court'] on the event dicts the week lists also hold; those lists are not
\* read again, and the variables keep the events as scraped.
MergeCourt ==
    /\ pc = "merge"
    /\ LET court_name == COURTS[court_idx + 1]
           end_date == today + 6
           merged == MergeGaps(gaps_week1, gaps_week2)
           filtered == filter_for_week(merged, today, 7)
           mb == badminton_week1 \o badminton_week2
           fb == FilterBadminton(mb, today, end_date)
           added == Dedup(fb, court_name)
       IN  /\ merged_gaps' = merged
           /\ filtered_gaps' = filtered
           /\ all_gaps' = [c \in DOMAIN all_gaps \cup {court_name} |->
                             IF c = court_name THEN filtered ELSE all_gaps[c]]
           /\ merged_badminton' = mb
           /\ filtered_badminton' = fb
           /\ court_badminton' = added
           /\ all_badminton' = all_badminton \o added
    /\ court_idx' = court_idx + 1
    /\ pc' = "loop"
    /\ UNCHANGED <<budget, today, gaps_week1, badminton_week1, gaps_week2,
                   badminton_week2, output, raised_at>>
    /\ UNCHANGED <<gapVars, winVars, timeVars, pageVars, icalVars>>

\* save_results_json(all_gaps, all_badminton), after the last court
SaveResults ==
    /\ pc = "loop"
    /\ court_idx = Len(COURTS)
    /\ LET r == save_results_json(all_gaps, all_badminton)
       IN  /\ all_gaps' = r.all_gaps
           /\ output' = r.courts
    /\ pc' = "saved"
    /\ UNCHANGED <<court_idx, budget, today, gaps_week1, badminton_week1,
                   gaps_week2, badminton_week2, merged_gaps, filtered_gaps,
                   merged_badminton, filtered_badminton, court_badminton,
                   all_badminton, raised_at>>
    /\ UNCHANGED <<gapVars, winVars, timeVars, pageVars, icalVars>>

\* save_results_json raises while the entry of the k-th court of all_gaps is
\* built.  Step 1 is done and the day lists of the courts before it are
\* sorted; nothing in the function or in main catches the exception, and
\* json.dump, after the loop, is not reached: gaps.json is not written.
SaveResultsRaises(k) ==
    /\ pc = "loop"
    /\ court_idx = Len(COURTS)
    /\ LET injected == InjectAll(all_gaps, all_badminton)
           Built(c) == \E j \in 1..(k - 1) : COURTS[j] = c
       IN  all_gaps' = [c \in DOMAIN injected |->
                          IF Built(c)
                          THEN [d \in DOMAIN injected[c] |-> SortDay(injected[c][d])]
                          ELSE injected[c]]
    /\ raised_at' = k
    /\ pc' = "raised"
    /\ UNCHANGED <<court_idx, budget, today, gaps_week1, badminton_week1,
                   gaps_week2, badminton_week2, merged_gaps, filtered_gaps,
                   merged_badminton, filtered_badminton, court_badminton,
                   all_badminton, output>>
    /\ UNCHANGED <<gapVars, winVars, timeVars, pageVars, icalVars>>

Next ==
    \/ ScrapeWeek1
    \/ ScrapeWeek2
    \/ MergeCourt
    \/ SaveResults
    \/ \E k \in 1..Len(COURTS) : SaveResultsRaises(k)

Spec == Init /\ [][Next]_vars

----------------------------------------------------------------------------
(* SpecWindow: filter_for_week and the badminton window on their own *)

\* the gap lists a date of the windowed dict may carry
WindowContents == { <<>>, <<Gap(OPEN_HOUR, CLOSE_HOUR)>> }

\* the dicts {date_str: gap list} over the date texts of the model
WindowDicts == UNION {[keys -> WindowContents] : keys \in SUBSET DateStrs}

\* the badminton event a page shows on one date
WindowEvent(date_str) ==
    BadmintonEvent(Item("Badminton Club", date_str, Colon(9, 0, "AM"), Colon(10, 0, "AM")))

WindowLists ==
    UNION {[1..k -> {WindowEvent(d) : d \in DateStrs}] : k \in 0..MaxListed}

InitWindow ==
    /\ w_data \in WindowDicts
    /\ w_list \in WindowLists
    /\ w_start \in {Today, Today + 1}
    /\ w_days \in {1, 7}
    /\ w_filtered = EmptyDict /\ w_filtered_list = <<>> /\ wphase = "input"
    /\ GapsIdle /\ MainIdle /\ TimeIdle /\ PageIdle /\ IcalIdle

\* filter_for_week(data_dict, target_start_date, days)
FilterGapMap ==
    /\ wphase = "input"
    /\ w_filtered' = filter_for_week(w_data, w_start, w_days)
    /\ wphase' = "gaps"
    /\ UNCHANGED <<w_data, w_list, w_start, w_days, w_filtered_list>>
    /\ UNCHANGED <<gapVars, mainVars, timeVars, pageVars, icalVars>>

\* the list comprehension of main over merged_badminton, end_date = today + 6
FilterEvents ==
    /\ wphase = "gaps"
    /\ w_filtered_list' = FilterBadminton(w_list, w_start, w_start + 6)
    /\ wphase' = "done"
    /\ UNCHANGED <<w_data, w_list, w_start, w_days, w_filtered>>
    /\ UNCHANGED <<gapVars, mainVars, timeVars, pageVars, icalVars>>

NextWindow ==
    \/ FilterGapMap
    \/ FilterEvents

SpecWindow == InitWindow /\ [][NextWindow]_vars

----------------------------------------------------------------------------
(* SpecTime: an hour value formatted, and the text parsed back *)

MinutesPerDay == 24 * 60

TimeModules == {"calendar_parser", "ical_parser"}

InitTime ==
    /\ t_module \in TimeModules
    /\ t_hour \in 0..(MinutesPerDay - 1)
    /\ t_text = Bare(12, "AM") /\ t_back = 0 /\ tphase = "input"
    /\ GapsIdle /\ MainIdle /\ WinIdle /\ PageIdle /\ IcalIdle

FormatHour ==
    /\ tphase = "input"
    /\ t_text' = IF t_module = "calendar_parser" THEN format_hour(t_hour)
                  ELSE ical_format_hour(t_hour)
    /\ tphase' = "formatted"
    /\ UNCHANGED <<t_module, t_hour, t_back>>
    /\ UNCHANGED <<gapVars, mainVars, winVars, pageVars, icalVars>>

ParseTime ==
    /\ tphase = "formatted"
    /\ t_back' = IF t_module = "calendar_parser" THEN parse_time(t_text)
                  ELSE ical_parse_time(t_text)
    /\ tphase' = "parsed"
    /\ UNCHANGED <<t_module, t_hour, t_text>>
    /\ UNCHANGED <<gapVars, mainVars, winVars, pageVars, icalVars>>

NextTime ==
    \/ FormatHour
    \/ ParseTime

SpecTime == InitTime /\ [][NextTime]_vars

----------------------------------------------------------------------------
(* SpecPage: find_gaps on the grid items of one calendar page *)

\* a label whose end time the page pattern matches and parse_time does not read
BadTimeItem ==
    Item("Volleyball", "Sat Jan 31 2026", Colon(9, 0, "AM"), NoMinutes(10, "AM"))

\* a label whose date group the page pattern matches and parse_date does not read
BadDateItem ==
    Item("Volleyball", "Foo Bar 1 2", Colon(9, 0, "AM"), Colon(10, 0, "AM"))

\* the grid items one page may show
GridItems == PageItems \cup {BadTimeItem, BadDateItem}

InitPage ==
    /\ page_items = <<>> /\ page_gaps = EmptyDict /\ pphase = "collect"
    /\ GapsIdle /\ MainIdle /\ WinIdle /\ TimeIdle /\ IcalIdle

\* the page shows one more grid item
ShowItem(it) ==
    /\ pphase = "collect"
    /\ Len(page_items) < MaxItems
    /\ page_items' = Append(page_items, it)
    /\ UNCHANGED <<page_gaps, pphase>>
    /\ UNCHANGED <<gapVars, mainVars, winVars, timeVars, icalVars>>

\* gaps = find_gaps(driver)
FindGaps ==
    /\ pphase = "collect"
    /\ page_gaps' = find_gaps(page_items)
    /\ pphase' = "found"
    /\ UNCHANGED page_items
    /\ UNCHANGED <<gapVars, mainVars, winVars, timeVars, icalVars>>

NextPage ==
    \/ \E it \in GridItems : ShowItem(it)
    \/ FindGaps

SpecPage == InitPage /\ [][NextPage]_vars

----------------------------------------------------------------------------
(* SpecIcal: fetch_ical_data on the feed of one court *)

\* the events a feed may carry: one within a day, one that ends after
\* midnight, one of yesterday, one of next week
FeedEvents ==
    { FeedEvent("Volleyball", 31, 10 * 60, 31, 11 * 60),
      FeedEvent("Badminton Club", 31, 22 * 60, 32, 1 * 60),
      FeedEvent("Volleyball", 30, 10 * 60, 30, 11 * 60),
      FeedEvent("Badminton Club", 37, 9 * 60, 37, 10 * 60) }

InitIcal ==
    /\ feed = <<>> /\ i_gaps = EmptyDict /\ i_badminton = <<>>
    /\ iphase = "collect"
    /\ GapsIdle /\ MainIdle /\ WinIdle /\ TimeIdle /\ PageIdle

\* the calendar holds one more event
AddFeedEvent(e) ==
    /\ iphase = "collect"
    /\ Len(feed) < MaxFeed
    /\ feed' = Append(feed, e)
    /\ UNCHANGED <<i_gaps, i_badminton, iphase>>
    /\ UNCHANGED <<gapVars, mainVars, winVars, timeVars, pageVars>>

\* the feed is fetched and parsed, and the gaps computed
Fetch ==
    /\ iphase = "collect"
    /\ LET r == fetch_ical_data(feed, Today)
       IN  /\ i_gaps' = r.gaps
           /\ i_badminton' = r.badminton_events
    /\ iphase' = "fetched"
    /\ UNCHANGED feed
    /\ UNCHANGED <<gapVars, mainVars, winVars, timeVars, pageVars>>

\* requests.get or Calendar(...) raises: "return {}, []"
FetchFails ==
    /\ iphase = "collect"
    /\ i_gaps' = EmptyDict
    /\ i_badminton' = <<>>
    /\ iphase' = "failed"
    /\ UNCHANGED feed
    /\ UNCHANGED <<gapVars, mainVars, winVars, timeVars, pageVars>>

NextIcal ==
    \/ \E e \in FeedEvents : AddFeedEvent(e)
    \/ Fetch
    \/ FetchFails

SpecIcal == InitIcal /\ [][NextIcal]_vars

----------------------------------------------------------------------------
(* Claims about the gap sweep (SpecGaps) *)

Durations(gs) == [i \in 1..Len(gs) |-> gs[i].end - gs[i].start]

\* two half-open intervals share time
Overlap(a, b) == a.start < b.end /\ b.start < a.end

\* the operating window's length
WindowLength == CLOSE_HOUR - OPEN_HOUR

\* C1: the day's gap list is sorted ascending by start and consecutive gaps do
\* not overlap (g1.end <= g2.start), for every list of events
C1_SortedDisjoint ==
    gphase = "swept" =>
        \A i \in 1..(Len(day_gaps) - 1) :
            /\ day_gaps[i].start <= day_gaps[i + 1].start
            /\ day_gaps[i].end <= day_gaps[i + 1].start

\* C2: every emitted gap lasts at least the minimum, and the time of a
\* candidate gap dropped for being shorter lies in no emitted gap
C2_MinDurationDropped ==
    gphase = "swept" =>
        /\ \A i \in 1..Len(day_gaps) :
              /\ day_gaps[i].end - day_gaps[i].start >= MIN_GAP
              /\ day_gaps[i].duration = day_gaps[i].end - day_gaps[i].start
        /\ \A i \in 1..Len(dropped), j \in 1..Len(day_gaps) :
              ~Overlap(dropped[i], day_gaps[j])

\* no event ends before it starts (none crosses the day boundary) ...
NoCrossing == \A i \in 1..Len(events) : events[i].start <= events[i].end
\* ... and no two events overlap
NoOverlaps ==
    \A i \in 1..Len(events), j \in 1..Len(events) :
        i < j => ~Overlap(events[i], events[j])
\* every event lies within the operating hours
AllInHours ==
    \A i \in 1..Len(events) :
        OPEN_HOUR <= events[i].start /\ events[i].end <= CLOSE_HOUR

GapTotal == SumSeq(Durations(day_gaps))
EventTotal == SumSeq(Durations(events))

\* C3, as claimed: gap time plus event time is at most the operating window,
\* and equal to it when no event crosses the day boundary and none overlap
C3_Original ==
    gphase = "swept" =>
        /\ GapTotal + EventTotal <= WindowLength
        /\ (NoCrossing /\ NoOverlaps) => GapTotal + EventTotal = WindowLength

\* C3, amended: when the events lie within the operating hours, none crosses
\* the day boundary and none overlap, gap time plus event time is at most the
\* operating window, and equal to it exactly when no candidate gap was dropped
\* for being shorter than the minimum
C3_Amended ==
    (gphase = "swept" /\ AllInHours /\ NoCrossing /\ NoOverlaps) =>
        /\ GapTotal + EventTotal <= WindowLength
        /\ (GapTotal + EventTotal = WindowLength) <=> (dropped = <<>>)

\* two events inside the hours, some gap kept and some candidate dropped
C3_Witness ==
    /\ gphase = "swept" /\ AllInHours /\ NoCrossing /\ NoOverlaps
    /\ Len(events) = 2 /\ events[1].end > events[1].start
    /\ Len(day_gaps) >= 1 /\ Len(dropped) >= 1
    /\ GapTotal + EventTotal < WindowLength

\* C4: every emitted gap lies within the operating hours
C4_WithinHours ==
    gphase = "swept" =>
        \A i \in 1..Len(day_gaps) :
            OPEN_HOUR <= day_gaps[i].start /\ day_gaps[i].end <= CLOSE_HOUR

----------------------------------------------------------------------------
(* Claims about the merge, the dedup and the report (Spec) *)

\* a court's loop body has just run (its locals are those of that court)
CourtDone == pc \in {"loop", "saved"} /\ court_idx > 0

\* C5: the merged gap map has the date keys of both passes; a date of both
\* passes carries the later pass's list, a date of one pass that pass's list
C5_MergeLastWins ==
    CourtDone =>
        /\ DOMAIN merged_gaps = DOMAIN gaps_week1 \cup DOMAIN gaps_week2
        /\ \A k \in DOMAIN merged_gaps :
              /\ k \in DOMAIN gaps_week2 => merged_gaps[k] = gaps_week2[k]
              /\ k \notin DOMAIN gaps_week2 => merged_gaps[k] = gaps_week1[k]

\* a date of both passes with different lists, and a date of the later pass only
C5_Witness ==
    /\ CourtDone
    /\ \E k \in DOMAIN gaps_week1 \cap DOMAIN gaps_week2 :
          gaps_week1[k] # gaps_week2[k] /\ merged_gaps[k] = gaps_week2[k]
    /\ \E k \in DOMAIN gaps_week2 \ DOMAIN gaps_week1 : k \in DOMAIN merged_gaps

\* the claim's dedup key (tag, date, start, title), on the date and start texts
\* as scraped; the tag is the one tag "Badminton Club"
ClaimKey(e) == <<"Badminton Club", e.date_str, e.start, e.name>>

\* the first event of the two passes, in pass order, with the key of e
FirstOfKey(e) ==
    LET i == CHOOSE i \in 1..Len(merged_badminton) :
                /\ ClaimKey(merged_badminton[i]) = ClaimKey(e)
                /\ \A j \in 1..(i - 1) : ClaimKey(merged_badminton[j]) # ClaimKey(e)
    IN  merged_badminton[i]

\* C6: in what a court's two passes contribute, no two entries share the key
\* (tag, date, start, title), and the entry of a key is the first event of that
\* key in pass order
C6_DedupFirstWins ==
    CourtDone =>
        /\ \A i \in 1..Len(court_badminton), j \in 1..Len(court_badminton) :
              i < j => ClaimKey(court_badminton[i]) # ClaimKey(court_badminton[j])
        /\ \A i \in 1..Len(court_badminton) :
              /\ \E j \in 1..Len(merged_badminton) :
                    ClaimKey(merged_badminton[j]) = ClaimKey(court_badminton[i])
              /\ court_badminton[i].end = FirstOfKey(court_badminton[i]).end
        /\ \A j \in 1..Len(filtered_badminton) :
              \E i \in 1..Len(court_badminton) :
                  ClaimKey(court_badminton[i]) = ClaimKey(filtered_badminton[j])

\* each pass reports the same key, with different ends; one entry is kept
C6_Witness ==
    /\ CourtDone
    /\ Len(court_badminton) = 1
    /\ \E i \in 1..Len(badminton_week1), j \in 1..Len(badminton_week2) :
          /\ ClaimKey(badminton_week1[i]) = ClaimKey(badminton_week2[j])
          /\ badminton_week1[i].end # badminton_week2[j].end
          /\ court_badminton[1].end = badminton_week1[i].end

\* C7, as claimed: all_badminton holds at most one entry per key over all courts
C7_Original ==
    \A i \in 1..Len(all_badminton), j \in 1..Len(all_badminton) :
        i < j => ClaimKey(all_badminton[i]) # ClaimKey(all_badminton[j])

\* the courts processed so far
DoneCourts == {COURTS[i] : i \in 1..court_idx}

\* C7, amended: all_badminton holds at most one entry per court and key; every
\* entry carries the court whose pages reported it, and the entries of a court
\* are those its loop body appended
C7_PerCourt ==
    /\ \A i \in 1..Len(all_badminton), j \in 1..Len(all_badminton) :
          i < j =>
              \/ all_badminton[i].court # all_badminton[j].court
              \/ ClaimKey(all_badminton[i]) # ClaimKey(all_badminton[j])
    /\ \A i \in 1..Len(all_badminton) : all_badminton[i].court \in DoneCourts
    /\ CourtDone =>
          /\ Len(all_badminton) >= Len(court_badminton)
          /\ \A i \in 1..Len(court_badminton) :
                /\ court_badminton[i].court = COURTS[court_idx]
                /\ all_badminton[Len(all_badminton) - Len(court_badminton) + i]
                      = court_badminton[i]

\* the same event reported on two courts is kept for both
C7_Witness ==
    \E i \in 1..Len(all_badminton), j \in 1..Len(all_badminton) :
        /\ i < j
        /\ ClaimKey(all_badminton[i]) = ClaimKey(all_badminton[j])
        /\ all_badminton[i].court = "Court 1"
        /\ all_badminton[j].court = "Court 2"

\* the date a "%a, %d-%b" text of the report stands for
DateOfShort(short) == (CHOOSE r \in DateTable : r.short = short).date

\* C9: in the report, every court's day entries ascend by calendar date and
\* every day's slots ascend by start hour
C9_ReportOrdered ==
    pc = "saved" =>
        \A c \in DOMAIN output :
            /\ \A i \in 1..(Len(output[c]) - 1) :
                  DateOfShort(output[c][i].date) < DateOfShort(output[c][i + 1].date)
            /\ \A i \in 1..Len(output[c]) :
                  \A j \in 1..(Len(output[c][i].slots) - 1) :
                      parse_time(output[c][i].slots[j].start)
                          <= parse_time(output[c][i].slots[j + 1].start)

\* a court with two days whose texts sort the other way as strings, and a day
\* where a badminton slot stands between two open slots
C9_Witness ==
    /\ pc = "saved"
    /\ \E c \in DOMAIN output :
          /\ Len(output[c]) = 2
          /\ output[c][1].date = "Sat, 31-Jan"
          /\ output[c][2].date = "Fri, 06-Feb"
          /\ Len(output[c][1].slots) = 3
          /\ output[c][1].slots[1].note = "Open"
          /\ output[c][1].slots[2].note = "Badminton Club"
          /\ output[c][1].slots[3].note = "Open"

\* how many entries of a list equal x
RECURSIVE Count(_, _)
Count(s, x) ==
    IF s = <<>> THEN 0
    ELSE (IF Head(s) = x THEN 1 ELSE 0) + Count(Tail(s), x)

\* the slots the report should hold for a court and a date: one "Open" slot per
\* gap, one slot with the tag per classified event
ExpectedSlots(gaps, badminton, c, d) ==
    LET gs == IF c \in DOMAIN gaps /\ d \in DOMAIN gaps[c] THEN gaps[c][d] ELSE <<>>
        On(e) == e.court = c /\ e.date_str = d
                 /\ parse_time(e.start) # None /\ parse_time(e.end) # None
        es == SelectSeq(badminton, On)
    IN  [i \in 1..Len(gs) |->
           [start |-> format_hour(gs[i].start), end |-> format_hour(gs[i].end),
            label |-> "Open"]]
        \o [i \in 1..Len(es) |->
              [start |-> format_hour(parse_time(es[i].start)),
               end |-> format_hour(parse_time(es[i].end)),
               label |-> "Badminton Club"]]

\* the slots the report holds for a court and a date
ReportedSlots(courts, c, d) ==
    IF c \notin DOMAIN courts THEN <<>>
    ELSE LET Of(day) == day.date = formatted_date(d)
             days == SelectSeq(courts[c], Of)
         IN  IF days = <<>> THEN <<>>
             ELSE [i \in 1..Len(days[1].slots) |->
                     [start |-> days[1].slots[i].start,
                      end |-> days[1].slots[i].end,
                      label |-> days[1].slots[i].note]]

ReportMatches(gaps, badminton, courts) ==
    \A i \in 1..Len(COURTS), d \in DateStrs :
        LET want == ExpectedSlots(gaps, badminton, COURTS[i], d)
            have == ReportedSlots(courts, COURTS[i], d)
        IN  \A x \in Range(want) \cup Range(have) : Count(have, x) = Count(want, x)

\* C10: the report holds exactly one slot per classified event, with its tag,
\* under its court and date, and exactly one "Open" slot per gap
C10_AllReported ==
    [][(pc = "loop" /\ pc' = "saved") =>
          ReportMatches(all_gaps, all_badminton, output')]_vars

----------------------------------------------------------------------------
(* Claim about the window (SpecWindow) *)

\* the claim's window: S <= d <= S + N - 1, for a date that parses
ClaimInWindow(date_str, S, N) ==
    /\ parse_date(date_str) # None
    /\ S <= parse_date(date_str)
    /\ parse_date(date_str) <= S + N - 1

\* C8: the window keeps exactly the entries dated within [S, S + N - 1], each
\* unchanged: of the gap map (N = w_days) and of the classified-event list
\* (N = 7)
C8_WindowInclusive ==
    /\ wphase \in {"gaps", "done"} =>
          /\ DOMAIN w_filtered
                = {k \in DOMAIN w_data : ClaimInWindow(k, w_start, w_days)}
          /\ \A k \in DOMAIN w_filtered : w_filtered[k] = w_data[k]
    /\ wphase = "done" =>
          LET In(e) == ClaimInWindow(e.date_str, w_start, 7)
          IN  w_filtered_list = SelectSeq(w_list, In)

\* a week's window over every date text: both ends kept, the day before, the
\* day after and the text that is no date dropped, from the map and the list
C8_Witness ==
    /\ wphase = "done" /\ w_start = Today /\ w_days = 7
    /\ DOMAIN w_data = DateStrs
    /\ DOMAIN w_filtered = {"Sat Jan 31 2026", "Tue Feb 03 2026", "Fri Feb 06 2026"}
    /\ Len(w_list) = 1 /\ w_list[1].date_str = "Fri Feb 06 2026"
    /\ w_filtered_list = w_list

----------------------------------------------------------------------------
(* Claims about the time texts (SpecTime) *)

\* C11: for every hour value of a day at whole-minute granularity, parsing the
\* text format_hour gives for it yields the hour value again.
C11_RoundTrip == tphase = "parsed" => t_back = t_hour

----------------------------------------------------------------------------
(* Claims about find_gaps on a page (SpecPage) *)

\* the text is one parse_time reads: "h:mm" or "h" before AM / PM
ReadableTime(t) == t.form \in {"h:mm", "h"}

BadTime(it) == ~ReadableTime(it.start) \/ ~ReadableTime(it.end)
BadDate(it) == it.date_str = "Foo Bar 1 2"

\* the batch with the records of unparseable time text removed
WithoutBadTimes(its) == LET Good(it) == ~BadTime(it) IN SelectSeq(its, Good)

\* the batch with every record of unparseable time or date text removed
WithoutBad(its) ==
    LET Good(it) == ~BadTime(it) /\ ~BadDate(it) IN SelectSeq(its, Good)

\* the number of skipped records find_gaps reports: it returns the gaps dict
\* alone, and the branch that skips a record counts nothing
skip_count(its) == 0

----------------------------------------------------------------------------
(* Claims about the iCal feed (SpecIcal) *)

\* the event ends on a later calendar date than it begins
CrossesMidnight(e) == e.end.date > e.begin.date

WithoutCrossing(cal_events) ==
    LET Within(e) == ~CrossesMidnight(e) IN SelectSeq(cal_events, Within)

\* C13: a record that ends after midnight is rejected: it adds no event to any
\* day's bucket, no bucket holds an event whose end hour is below its start
\* hour, and the gaps of every date are those of the feed without the record.
C13_CrossMidnightRejected ==
    iphase = "fetched" =>
        /\ ical_events_by_day(feed, Today)
             = ical_events_by_day(WithoutCrossing(feed), Today)
        /\ \A d \in DOMAIN ical_events_by_day(feed, Today) :
             \A ev \in Range(ical_events_by_day(feed, Today)[d]) : ev.start <= ev.end
        /\ i_gaps = fetch_ical_data(WithoutCrossing(feed), Today).gaps

----------------------------------------------------------------------------
(* Claims about the operating window (SpecPage) *)

\* the sweep of the events of one date, sorted by start, with the cursor at
\* cur and the day closing at close
RECURSIVE WindowSweep(_, _, _)
WindowSweep(evs, cur, close) ==
    IF evs = <<>>
    THEN IF close - cur >= MIN_GAP THEN <<Gap(cur, close)>> ELSE <<>>
    ELSE LET e == Head(evs)
             before == IF e.start - cur >= MIN_GAP THEN <<Gap(cur, e.start)>> ELSE <<>>
         IN  before \o WindowSweep(Tail(evs), IF e.end > cur THEN e.end ELSE cur, close)

\* C14: the gaps of a date are swept from the open hour to the close hour of
\* that date's weekday in the weekday-keyed table.
C14_WeekdayWindow ==
    pphase = "found" =>
        \A d \in DOMAIN page_gaps :
            parse_date(d) # None =>
                LET hours == OPERATING_HOURS[weekday(parse_date(d))]
                IN  page_gaps[d] = WindowSweep(SortByStart(events_by_day(page_items)[d]),
                                               hours.open, hours.close)

\* the date texts of the week the run scans: today and the six days after it
ScannedDates ==
    {d \in DateStrs : parse_date(d) # None /\ Today <= parse_date(d)
                                           /\ parse_date(d) <= Today + 6}

\* no grid item of the page lies on the date
NoEventsOn(d) == \A i \in 1..Len(page_items) : page_items[i].date_str # d

\* the gap lists that are one gap over a whole day: the flat window, or the
\* window of the date's weekday
FullDay(d) ==
    { <<Gap(OPEN_HOUR, CLOSE_HOUR)>>,
      <<Gap(OPERATING_HOURS[weekday(parse_date(d))].open,
            OPERATING_HOURS[weekday(parse_date(d))].close)>> }

\* C15: a date of the scanned range with no event has, in the gap map, the
\* single gap from open to close; it is never absent from the map.
C15_EmptyDayFullGap ==
    pphase = "found" =>
        \A d \in ScannedDates :
            NoEventsOn(d) => d \in DOMAIN page_gaps /\ page_gaps[d] \in FullDay(d)

----------------------------------------------------------------------------
(* Claims about the report under failure and about purity (Spec) *)

\* C16: when the serialization of one court fails, the report still carries
\* the entry of every other court.
C16_PerCourtDegradation ==
    pc = "raised" =>
        \A j \in 1..Len(COURTS) :
            j # raised_at =>
                /\ COURTS[j] \in DOMAIN output
                /\ output[COURTS[j]] = CourtData(all_gaps[COURTS[j]])

\* C18: save_results_json leaves all_gaps as it was, and a second call on the
\* same arguments emits the slot lists of the first.
C18_Pure ==
    [][(pc = "loop" /\ pc' = "saved") =>
         /\ all_gaps' = all_gaps
         /\ save_results_json(all_gaps', all_badminton).courts = output']_vars

----------------------------------------------------------------------------
(* Claims about gaps and events (SpecGaps) *)

\* the event does not end before it starts
WellFormed(ev) == ev.start <= ev.end

\* C17: no emitted gap shares time with an event of the same date whose start
\* is not after its end, whether or not the events overlap or nest.
C17_NoGapOverEvent ==
    gphase = "swept" =>
        \A i \in 1..Len(day_gaps) : \A j \in 1..Len(events) :
            WellFormed(events[j]) => ~Overlap(day_gaps[i], events[j])

\* one event lies within another that it shares time with, and a gap was emitted
C17_Witness ==
    /\ gphase = "swept"
    /\ day_gaps # <<>>
    /\ \E i, j \in 1..Len(events) :
         /\ i # j
         /\ WellFormed(events[i]) /\ WellFormed(events[j])
         /\ events[i].start < events[j].start
         /\ events[j].end < events[i].end
         /\ Overlap(events[i], events[j])

\* the sweep with a window is the sweep of find_gaps when the window is the
\* flat one
SweepAgrees ==
    gphase = "swept" => day_gaps = WindowSweep(events, OPEN_HOUR, CLOSE_HOUR)

====
